---- MODULE Spec2Model ----
(***************************************************************************)
(* Board engine of the sliding-tile puzzle (game/src/lib.rs): the grid,    *)
(* move_once / move_many, is_ordered and the two shuffle strategies.       *)
(*                                                                         *)
(* Indices are the code's 0-based flat indices; the TLA+ sequence `cells`  *)
(* is 1-based, so cell ix of the code is cells[ix + 1].                    *)
(***************************************************************************)
EXTENDS Integers, Sequences, FiniteSets



\* ---------------------------------------------------------------- bounds
\* Largest board size explored by Spec (boards are MaxSize x MaxSize).
MaxSize == 4
\* Total number of directions a client submits (move_once: 1, move_many: its length).
MaxSteps == 6
\* Longest direction sequence handed to one move_many call.
MaxLen == 2
\* Largest board size explored by SpecShuffle (the walk is size^4 moves long).
MaxShuffleSize == 2
\* Number of move_once calls explored after construction by SpecMax.
MaxBigSteps == 1

\* ---------------------------------------------------------------- values
\* Option<NonZeroU16>: None is the empty sequence, Some(v) the one-element one.
None == <<>>
Some(v) == <<v>>
IsSome(c) == c # None
Unwrap(c) == c[1]

\* NonZeroU16::new: None for 0, Some(v) otherwise.
NonZeroU16_new(v) == IF v = 0 THEN None ELSE Some(v)

\* The largest value of a u8, the type of Board.size.
U8Max == 255

U16AsU8(x) == x % 256

\* u16 arithmetic wraps at 2^16 (release build); `as u16` of a u8 is exact.
U16(x) == x % 65536

\* const MOVES
MOVES == <<"Left", "Right", "Up", "Down">>
Move == {MOVES[k] : k \in 1..Len(MOVES)}

\* The half-open integer range a..b of Rust (a, a+1, ..., b-1) as a sequence.
Range(a, b) == IF b > a THEN [k \in 1..(b - a) |-> a + k - 1] ELSE <<>>

\* Iterator::map over a sequence, for the one function mapped in the code.
MapNonZeroU16_new(s) == [k \in 1..Len(s) |-> NonZeroU16_new(s[k])]

\* ---------------------------------------------------------------- Board::new
BoardNewBlankFirst(sz) ==
    LET num_cells == U16(U16(sz) * U16(sz))
        cells_ == MapNonZeroU16_new(Range(0, 1) \o Range(1, num_cells))
    IN  [cells |-> cells_, size |-> sz, free_cell_ix |-> 0]

\* The board built by Board::new before the shuffler runs.
BoardNew(sz) ==
    LET num_cells == U16(U16(sz) * U16(sz))
        cells_ == MapNonZeroU16_new(Range(1, num_cells) \o Range(0, 1))
    IN  [cells |-> cells_, size |-> sz, free_cell_ix |-> Len(cells_) - 1]

\* ---------------------------------------------------------------- move_once
LeftBlockedNever(free, sz) == FALSE

\* Left: `next_ix % size == 0`.
LeftBlocked(free, sz) == (free + 1) % sz = 0

RightBlockedAtRowEnd(free, sz) == (free + 1) % sz = 0

\* Right: `free_cell_ix % size == 0`.
RightBlocked(free, sz) == free % sz = 0

\* What the match on mv evaluates to: an early `return false`, a panic (the
\* remainder by a zero size), or the target index.
TargetCellIxSwapped(mv, free, sz) ==
    CASE mv = "Left" ->
            IF sz = 0 THEN [kind |-> "panic", ix |-> 0]
            ELSE IF LeftBlocked(free, sz) THEN [kind |-> "false", ix |-> 0]
            ELSE [kind |-> "ix", ix |-> free + 1]
      [] mv = "Right" ->
            IF sz = 0 THEN [kind |-> "panic", ix |-> 0]
            ELSE IF RightBlocked(free, sz) THEN [kind |-> "false", ix |-> 0]
            ELSE [kind |-> "ix", ix |-> free - 1]
      [] mv = "Up" -> [kind |-> "ix", ix |-> free - sz]
      [] mv = "Down" -> [kind |-> "ix", ix |-> free + sz]

TargetCellIx(mv, free, sz) ==
    CASE mv = "Left" ->
            IF sz = 0 THEN [kind |-> "panic", ix |-> 0]
            ELSE IF LeftBlocked(free, sz) THEN [kind |-> "false", ix |-> 0]
            ELSE [kind |-> "ix", ix |-> free + 1]
      [] mv = "Right" ->
            IF sz = 0 THEN [kind |-> "panic", ix |-> 0]
            ELSE IF RightBlocked(free, sz) THEN [kind |-> "false", ix |-> 0]
            ELSE [kind |-> "ix", ix |-> free - 1]
      [] mv = "Up" -> [kind |-> "ix", ix |-> free + sz]
      [] mv = "Down" -> [kind |-> "ix", ix |-> free - sz]

OutOfRangeNoUpperCheck(target, len) == target < 0

OutOfRangeNoLowerCheck(target, len) == target >= len

\* `target_cell_ix < 0 || target_cell_ix >= self.cells.len()`.
OutOfRange(target, len) == target < 0 \/ target >= len

SwapCopies(cs, a, b) == [cs EXCEPT ![a + 1] = cs[b + 1]]

\* Vec::swap(a, b) with both indices in range.
Swap(cs, a, b) == [cs EXCEPT ![a + 1] = cs[b + 1], ![b + 1] = cs[a + 1]]

\* The outcome of a call that panicked: the board as the panic left it.
Panicked(b) ==
    [cells |-> b.cells, size |-> b.size, free_cell_ix |-> b.free_cell_ix,
     ret |-> FALSE, panicked |-> TRUE]

Returned(cs, sz, free, r) ==
    [cells |-> cs, size |-> sz, free_cell_ix |-> free, ret |-> r, panicked |-> FALSE]

move_onceKeepsFreeIx(b, mv) ==
    LET t == TargetCellIx(mv, b.free_cell_ix, b.size)
    IN  IF t.kind = "panic" THEN Panicked(b)
        ELSE IF t.kind = "false" THEN Returned(b.cells, b.size, b.free_cell_ix, FALSE)
        ELSE IF OutOfRange(t.ix, Len(b.cells))
             THEN Returned(b.cells, b.size, b.free_cell_ix, FALSE)
        ELSE Returned(Swap(b.cells, b.free_cell_ix, t.ix), b.size, b.free_cell_ix, TRUE)

move_onceEagerIx(b, mv) ==
    LET t == TargetCellIx(mv, b.free_cell_ix, b.size)
    IN  IF t.kind = "panic" THEN Panicked(b)
        ELSE IF t.kind = "false" THEN Returned(b.cells, b.size, b.free_cell_ix, FALSE)
        ELSE IF OutOfRange(t.ix, Len(b.cells))
             THEN Returned(b.cells, b.size, t.ix, FALSE)
        ELSE Returned(Swap(b.cells, b.free_cell_ix, t.ix), b.size, t.ix, TRUE)

\* Board::move_once on board b = [cells, size, free_cell_ix]: the board after
\* the call, the returned bool, and whether the call panicked instead.
move_once(b, mv) ==
    LET t == TargetCellIx(mv, b.free_cell_ix, b.size)
    IN  IF t.kind = "panic" THEN Panicked(b)
        ELSE IF t.kind = "false" THEN Returned(b.cells, b.size, b.free_cell_ix, FALSE)
        ELSE IF OutOfRange(t.ix, Len(b.cells))
             THEN Returned(b.cells, b.size, b.free_cell_ix, FALSE)
        \* Vec::swap panics on an index outside the vector
        ELSE IF b.free_cell_ix >= Len(b.cells) \/ t.ix < 0 \/ t.ix >= Len(b.cells)
             THEN Panicked(b)
        ELSE Returned(Swap(b.cells, b.free_cell_ix, t.ix), b.size, t.ix, TRUE)

BoardOf(r) == [cells |-> r.cells, size |-> r.size, free_cell_ix |-> r.free_cell_ix]

\* ---------------------------------------------------------------- move_many
RECURSIVE move_many_loop(_, _, _, _)
\* The `for &mv in moves` loop from its k-th direction on.
move_many_loop(b, moves, k, successful_moves) ==
    IF k > Len(moves)
    THEN [cells |-> b.cells, size |-> b.size, free_cell_ix |-> b.free_cell_ix,
          count |-> successful_moves, panicked |-> FALSE]
    ELSE LET r == move_once(b, moves[k])
         IN  IF r.panicked
             THEN [cells |-> r.cells, size |-> r.size, free_cell_ix |-> r.free_cell_ix,
                   count |-> successful_moves, panicked |-> TRUE]
             ELSE move_many_loop(BoardOf(r), moves, k + 1,
                                 IF r.ret THEN successful_moves + 1 ELSE successful_moves)

RECURSIVE move_many_loopShortCircuit(_, _, _, _)
move_many_loopShortCircuit(b, moves, k, successful_moves) ==
    IF k > Len(moves)
    THEN [cells |-> b.cells, size |-> b.size, free_cell_ix |-> b.free_cell_ix,
          count |-> successful_moves, panicked |-> FALSE]
    ELSE LET r == move_once(b, moves[k])
         IN  IF r.panicked
             THEN [cells |-> r.cells, size |-> r.size, free_cell_ix |-> r.free_cell_ix,
                   count |-> successful_moves, panicked |-> TRUE]
             ELSE IF ~r.ret
             THEN [cells |-> r.cells, size |-> r.size, free_cell_ix |-> r.free_cell_ix,
                   count |-> successful_moves, panicked |-> FALSE]
             ELSE move_many_loopShortCircuit(BoardOf(r), moves, k + 1, successful_moves + 1)

move_manyShortCircuit(b, moves) == move_many_loopShortCircuit(b, moves, 1, 0)

\* Board::move_many: the board after the call and the returned count.
move_many(b, moves) == move_many_loop(b, moves, 1, 0)

\* ---------------------------------------------------------------- is_ordered
RECURSIVE is_ordered_loop(_, _, _)
\* The `for cell in self.cells.iter()` loop from the k-th cell on.
is_ordered_loop(cs, k, prev_cell) ==
    IF k > Len(cs) THEN TRUE
    ELSE LET cell == cs[k]
         IN  IF IsSome(cell) /\ IsSome(prev_cell)
             THEN IF Unwrap(cell) <= Unwrap(prev_cell)
                  THEN FALSE
                  ELSE is_ordered_loop(cs, k + 1, cell)
             ELSE IF ~IsSome(cell)
             THEN is_ordered_loop(cs, k + 1, prev_cell)
             ELSE is_ordered_loop(cs, k + 1, cell)

RECURSIVE is_ordered_loopBlankResets(_, _, _)
is_ordered_loopBlankResets(cs, k, prev_cell) ==
    IF k > Len(cs) THEN TRUE
    ELSE LET cell == cs[k]
         IN  IF IsSome(cell) /\ IsSome(prev_cell)
             THEN IF Unwrap(cell) <= Unwrap(prev_cell)
                  THEN FALSE
                  ELSE is_ordered_loopBlankResets(cs, k + 1, cell)
             ELSE IF ~IsSome(cell)
             THEN is_ordered_loopBlankResets(cs, k + 1, None)
             ELSE is_ordered_loopBlankResets(cs, k + 1, cell)

is_orderedBlankResets(cs) == is_ordered_loopBlankResets(cs, 1, None)

is_orderedBlankLast(cs) == is_ordered_loop(cs, 1, None) /\ cs[Len(cs)] = None

RECURSIVE is_ordered_span(_, _, _, _)
\* The same loop over cells lo..hi, started in loop state st (whether the loop
\* has already returned false, and prev_cell), evaluated by halves so that a
\* vector of 255*255 cells can be walked.
is_ordered_span(cs, lo, hi, st) ==
    IF st.returned \/ lo > hi THEN st
    ELSE IF lo = hi
    THEN LET cell == cs[lo]
         IN  IF IsSome(cell) /\ IsSome(st.prev_cell)
             THEN IF Unwrap(cell) <= Unwrap(st.prev_cell)
                  THEN [returned |-> TRUE, prev_cell |-> st.prev_cell]
                  ELSE [returned |-> FALSE, prev_cell |-> cell]
             ELSE IF ~IsSome(cell)
             THEN st
             ELSE [returned |-> FALSE, prev_cell |-> cell]
    ELSE LET mid == (lo + hi) \div 2
         IN  is_ordered_span(cs, mid + 1, hi, is_ordered_span(cs, lo, mid, st))

\* Board::is_ordered, walked by halves.
is_ordered_long(cs) ==
    ~is_ordered_span(cs, 1, Len(cs), [returned |-> FALSE, prev_cell |-> None]).returned

\* Board::is_ordered.
is_ordered(cs) == is_ordered_loop(cs, 1, None)

\* ---------------------------------------------------------------- shufflers
\* DummyShuffle::shuffle leaves the board as it is.
DummyShuffle_shuffle(b) == b

RECURSIVE Pow(_, _)
Pow(x, n) == IF n = 0 THEN 1 ELSE x * Pow(x, n - 1)

\* num_shuffle_moves of RandomShuffle::shuffle.
NumShuffleMoves(sz) == Pow(sz, 4)

\* ---------------------------------------------------------------- state
VARIABLES
    size,           \* Board.size
    cells,          \* Board.cells
    free_cell_ix,   \* Board.free_cell_ix
    panicked,       \* a call panicked: the process is gone
    pc,             \* "shuffle" while RandomShuffle::shuffle runs inside Board::new, then "ready"
    i,              \* the loop counter of RandomShuffle::shuffle
    call,           \* history: the client's last call, its arguments, result and the board before it
    walk,           \* history: the directions RandomShuffle::shuffle drew that move_once accepted
    steps           \* history: number of directions submitted so far

vars == <<size, cells, free_cell_ix, panicked, pc, i, call, walk, steps>>

Board == [cells |-> cells, size |-> size, free_cell_ix |-> free_cell_ix]

Call(op, mv, moves, ret, count, before) ==
    [op |-> op, mv |-> mv, moves |-> moves, ret |-> ret, count |-> count, before |-> before]

\* Sequences of directions of length 0..n.
MoveSeqs(n) == UNION {[1..k -> Move] : k \in 0..n}

\* Board::new(sz, &mut DummyShuffle) has returned.
InitBoard(sz) ==
    LET b == DummyShuffle_shuffle(BoardNew(sz))
    IN  /\ size = b.size
        /\ cells = b.cells
        /\ free_cell_ix = b.free_cell_ix
        /\ panicked = FALSE
        /\ pc = "ready"
        /\ i = 0
        /\ call = Call("new", "-", <<>>, TRUE, 0, b)
        /\ walk = <<>>
        /\ steps = 0

Init == \E sz \in 1..MaxSize : InitBoard(sz)

\* The client calls board.move_once(mv).
MoveOnce(mv) ==
    /\ pc = "ready"
    /\ ~panicked
    /\ steps < MaxSteps
    /\ LET r == move_once(Board, mv)
       IN  /\ cells' = r.cells
           /\ size' = r.size
           /\ free_cell_ix' = r.free_cell_ix
           /\ panicked' = r.panicked
           /\ call' = Call("move_once", mv, <<>>, r.ret, 0, Board)
    /\ steps' = steps + 1
    /\ UNCHANGED <<pc, i, walk>>

\* The client calls board.move_many(moves).
MoveMany(moves) ==
    /\ pc = "ready"
    /\ ~panicked
    /\ steps + Len(moves) <= MaxSteps
    /\ LET r == move_many(Board, moves)
       IN  /\ cells' = r.cells
           /\ size' = r.size
           /\ free_cell_ix' = r.free_cell_ix
           /\ panicked' = r.panicked
           /\ call' = Call("move_many", "-", moves, TRUE, r.count, Board)
    /\ steps' = steps + Len(moves)
    /\ UNCHANGED <<pc, i, walk>>

Next ==
    \/ \E mv \in Move : MoveOnce(mv)
    \/ \E moves \in MoveSeqs(MaxLen) : MoveMany(moves)

Spec == Init /\ [][Next]_vars

\* ---------------------------------------------------------------- RandomShuffle
shuffle_iterationCountsEveryDraw(b, i_, mv) ==
    LET r == move_once(b, mv)
    IN  [cells |-> r.cells, size |-> r.size, free_cell_ix |-> r.free_cell_ix,
         panicked |-> r.panicked, accepted |-> r.ret,
         i |-> i_ + 1]

\* One iteration of the `while i < num_shuffle_moves` loop with mv the drawn
\* direction: the board after board.move_once(mv) and the new value of i.
shuffle_iteration(b, i_, mv) ==
    LET r == move_once(b, mv)
    IN  [cells |-> r.cells, size |-> r.size, free_cell_ix |-> r.free_cell_ix,
         panicked |-> r.panicked, accepted |-> r.ret,
         i |-> IF r.ret /\ ~r.panicked THEN i_ + 1 ELSE i_]

\* Board::new(sz, &mut RandomShuffle) has built the board and enters shuffle().
InitShuffleBoard(sz) ==
    LET b == BoardNew(sz)
    IN  /\ size = b.size
        /\ cells = b.cells
        /\ free_cell_ix = b.free_cell_ix
        /\ panicked = FALSE
        /\ pc = "shuffle"
        /\ i = 0
        /\ call = Call("new", "-", <<>>, TRUE, 0, b)
        /\ walk = <<>>
        /\ steps = 0

InitShuffle == \E sz \in 1..MaxShuffleSize : InitShuffleBoard(sz)

\* The loop condition holds: draw a direction and try it.
ShuffleStep ==
    /\ pc = "shuffle"
    /\ ~panicked
    /\ i < NumShuffleMoves(size)
    /\ \E k \in 1..Len(MOVES) :
          LET mv == MOVES[k]
              r == shuffle_iteration(Board, i, mv)
          IN  /\ cells' = r.cells
              /\ size' = r.size
              /\ free_cell_ix' = r.free_cell_ix
              /\ panicked' = r.panicked
              /\ i' = r.i
              /\ walk' = IF r.accepted THEN Append(walk, mv) ELSE walk
    /\ UNCHANGED <<pc, call, steps>>

\* The loop condition fails: shuffle() returns and Board::new returns the board.
ShuffleReturn ==
    /\ pc = "shuffle"
    /\ ~panicked
    /\ ~(i < NumShuffleMoves(size))
    /\ pc' = "ready"
    /\ UNCHANGED <<size, cells, free_cell_ix, panicked, i, call, walk, steps>>

NextShuffle == ShuffleStep \/ ShuffleReturn

SpecShuffle == InitShuffle /\ [][NextShuffle]_vars

\* ---------------------------------------------------------------- RandomShuffle, draw by draw
\* The loop condition holds, the random source draws mv and the loop calls
\* board.move_once(mv). Here the history is the call itself (its direction,
\* its result and the board before it), not the accepted walk.
ShuffleDraw(mv) ==
    /\ pc = "shuffle"
    /\ ~panicked
    /\ i < NumShuffleMoves(size)
    /\ LET r == shuffle_iteration(Board, i, mv)
       IN  /\ cells' = r.cells
           /\ size' = r.size
           /\ free_cell_ix' = r.free_cell_ix
           /\ panicked' = r.panicked
           /\ i' = r.i
           /\ call' = Call("move_once", mv, <<>>, r.accepted, 0, Board)
    /\ UNCHANGED <<pc, walk, steps>>

NextShuffleFair ==
    \/ \E mv \in Move : ShuffleDraw(mv)
    \/ ShuffleReturn

\* The loop never pauses, and a fair random source draws each of the four
\* directions again and again.
ShuffleFairness ==
    /\ \A mv \in Move : SF_vars(ShuffleDraw(mv))
    /\ WF_vars(ShuffleReturn)

SpecShuffleFair == InitShuffle /\ [][NextShuffleFair]_vars /\ ShuffleFairness

\* ---------------------------------------------------------------- Board::new on any u8
\* What Board::new(sz, &mut DummyShuffle) returns: the code has one return,
\* `Ok(board)`, whatever sz is.
Board_new(sz) == [ok |-> TRUE, board |-> DummyShuffle_shuffle(BoardNew(sz))]

\* Board::new(sz, &mut DummyShuffle) has returned, for any size a u8 can hold
\* (here 0..MaxSize).
InitAnyBoard(sz) ==
    LET res == Board_new(sz)
    IN  /\ size = res.board.size
        /\ cells = res.board.cells
        /\ free_cell_ix = res.board.free_cell_ix
        /\ panicked = FALSE
        /\ pc = "ready"
        /\ i = 0
        /\ call = Call("new", "-", <<>>, res.ok, 0, res.board)
        /\ walk = <<>>
        /\ steps = 0

InitAny == \E sz \in 0..MaxSize : InitAnyBoard(sz)

SpecAny == InitAny /\ [][Next]_vars

\* ---------------------------------------------------------------- a board given with the blank first
\* The board the command-line tests start from: the blank in the first cell,
\* then the tiles 1..sz*sz-1 in order.
ScenarioStart(sz) ==
    LET num_cells == U16(U16(sz) * U16(sz))
        cells_ == MapNonZeroU16_new(Range(0, 1) \o Range(1, num_cells))
    IN  [cells |-> cells_, size |-> sz, free_cell_ix |-> 0]

\* A client holds that board.
InitScenarioBoard(sz) ==
    LET b == ScenarioStart(sz)
    IN  /\ size = b.size
        /\ cells = b.cells
        /\ free_cell_ix = b.free_cell_ix
        /\ panicked = FALSE
        /\ pc = "ready"
        /\ i = 0
        /\ call = Call("given", "-", <<>>, TRUE, 0, b)
        /\ walk = <<>>
        /\ steps = 0

InitScenario == \E sz \in 1..MaxSize : InitScenarioBoard(sz)

SpecScenario == InitScenario /\ [][Next]_vars

\* ---------------------------------------------------------------- every size a u8 holds
\* Board::new(sz, &mut DummyShuffle) has returned, for each size 1..255; the
\* client then calls move_once at most MaxBigSteps times.
InitMax == \E sz \in 1..U8Max : InitBoard(sz)

NextMax == \E mv \in Move : (steps < MaxBigSteps /\ MoveOnce(mv))

SpecMax == InitMax /\ [][NextMax]_vars

\* ---------------------------------------------------------------- notions used by the properties
\* The non-empty cells in storage order.
NonEmpty(cs) == SelectSeq(cs, IsSome)

\* The tiles 1, 2, ..., n in order.
Ascending(n) == [k \in 1..n |-> Some(k)]

\* The sequence of tiles ts with the blank put at flat index j.
InsertBlank(ts, j) == SubSeq(ts, 1, j) \o <<None>> \o SubSeq(ts, j + 1, Len(ts))

RowOf(ix) == ix \div size
ColOf(ix) == ix % size

Opposite(mv) ==
    CASE mv = "Left" -> "Right"
      [] mv = "Right" -> "Left"
      [] mv = "Up" -> "Down"
      [] mv = "Down" -> "Up"

\* ---------------------------------------------------------------- properties

\* C1: after any sequence of move_once / move_many calls on a board built with
\* the no-op shuffle (size >= 1): exactly one cell is empty, the other cells
\* hold each of 1..size*size-1 exactly once, free_cell_ix is the index of the
\* empty cell, and 0 <= free_cell_ix < size*size.
C1_BoardInvariants ==
    /\ Len(cells) = size * size
    /\ Cardinality({k \in 1..Len(cells) : cells[k] = None}) = 1
    /\ \A k \in 1..Len(cells) : IsSome(cells[k]) => Unwrap(cells[k]) \in 1..(size * size - 1)
    /\ \A v \in 1..(size * size - 1) :
          Cardinality({k \in 1..Len(cells) : cells[k] = Some(v)}) = 1
    /\ 0 <= free_cell_ix
    /\ free_cell_ix < size * size
    /\ cells[free_cell_ix + 1] = None

C1_Witness ==
    /\ size = 3
    /\ call.op = "move_many"
    /\ call.count = 2
    /\ steps >= 4

C3_IllegalMoveIsNoOp ==
    call.op = "move_once" =>
        /\ ~panicked
        /\ ~call.ret => Board = call.before

C3_Witness ==
    /\ call.op = "move_once"
    /\ call.mv = "Up"
    /\ ~call.ret
    /\ size = 3
    /\ steps >= 2

\* C4: move_once(Left) is legal exactly when (free_cell_ix + 1) % size # 0 and
\* then moves the blank to free_cell_ix + 1; move_once(Right) is legal exactly
\* when free_cell_ix % size # 0 and then moves the blank to free_cell_ix - 1;
\* either way the blank stays in its row.
C4_HorizontalMoves ==
    (call.op = "move_once" /\ call.mv \in {"Left", "Right"}) =>
        LET f == call.before.free_cell_ix
        IN  /\ call.mv = "Left" =>
                /\ call.ret <=> ((f + 1) % size # 0)
                /\ call.ret => free_cell_ix = f + 1
            /\ call.mv = "Right" =>
                /\ call.ret <=> (f % size # 0)
                /\ call.ret => free_cell_ix = f - 1
            /\ ~call.ret => free_cell_ix = f
            /\ cells[free_cell_ix + 1] = None
            /\ RowOf(free_cell_ix) = RowOf(f)

C4_Witness ==
    /\ call.op = "move_once"
    /\ call.mv = "Left"
    /\ call.ret
    /\ size = 3

\* C5: move_once(Up) is legal exactly when free_cell_ix + size < size*size and
\* then moves the blank to free_cell_ix + size; move_once(Down) is legal
\* exactly when free_cell_ix - size >= 0 and then moves the blank to
\* free_cell_ix - size; either way the blank stays in its column.
C5_VerticalMoves ==
    (call.op = "move_once" /\ call.mv \in {"Up", "Down"}) =>
        LET f == call.before.free_cell_ix
        IN  /\ call.mv = "Up" =>
                /\ call.ret <=> (f + size < size * size)
                /\ call.ret => free_cell_ix = f + size
            /\ call.mv = "Down" =>
                /\ call.ret <=> (f - size >= 0)
                /\ call.ret => free_cell_ix = f - size
            /\ ~call.ret => free_cell_ix = f
            /\ cells[free_cell_ix + 1] = None
            /\ ColOf(free_cell_ix) = ColOf(f)

C5_Witness ==
    /\ call.op = "move_once"
    /\ call.mv = "Up"
    /\ call.ret
    /\ size = 3

\* C6: after a move_once(d) that returned true, move_once(opposite(d)) returns
\* true and restores cells and free_cell_ix to their values before the first call.
C6_OppositeMoveRestores ==
    (call.op = "move_once" /\ call.ret) =>
        LET r == move_once(Board, Opposite(call.mv))
        IN  /\ r.ret
            /\ ~r.panicked
            /\ r.cells = call.before.cells
            /\ r.free_cell_ix = call.before.free_cell_ix

C6_Witness ==
    /\ call.op = "move_once"
    /\ call.ret
    /\ call.mv = "Right"
    /\ call.before.free_cell_ix = 4
    /\ size = 3

\* C7: move_many attempts every direction in order, also after an illegal one:
\* its final board is the one reached by calling move_once on each direction
\* in turn, and it returns the number of those calls that returned true.
C7_MoveManyIsSequenceOfMoveOnce ==
    call.op = "move_many" =>
        LET n == Len(call.moves)
            b[k \in 0..n] ==
                IF k = 0 THEN call.before
                ELSE BoardOf(move_once(b[k - 1], call.moves[k]))
            applied == {k \in 1..n : move_once(b[k - 1], call.moves[k]).ret}
        IN  /\ Board = b[n]
            /\ call.count = Cardinality(applied)
            /\ 0 <= call.count
            /\ call.count <= n

C7_Witness ==
    /\ call.op = "move_many"
    /\ Len(call.moves) = 2
    /\ ~move_once(call.before, call.moves[1]).ret
    /\ call.count = 1
    /\ size = 3

\* C8: is_ordered() is true exactly when the non-empty cells in storage order
\* are 1, 2, ..., size*size-1.
C8_IsOrderedIffAscending ==
    is_ordered(cells) <=> (NonEmpty(cells) = Ascending(size * size - 1))

C8_Witness ==
    /\ size = 3
    /\ ~is_ordered(cells)
    /\ steps >= 3

\* C9: is_ordered() does not depend on where the blank is: the same tiles in
\* the same storage order with the blank at any other index give the same
\* result; in particular 1..size-1 Right moves on the fresh board leave it ordered.
C9_IsOrderedIgnoresBlank ==
    /\ \A j \in 0..(Len(cells) - 1) :
          is_ordered(InsertBlank(NonEmpty(cells), j)) = is_ordered(cells)
    /\ ( /\ call.op = "move_many"
         /\ call.before = BoardNew(size)
         /\ Len(call.moves) \in 1..(size - 1)
         /\ \A k \in 1..Len(call.moves) : call.moves[k] = "Right" )
       => (is_ordered(cells) /\ free_cell_ix = size * size - 1 - Len(call.moves))

C9_Witness ==
    /\ size = 3
    /\ call.op = "move_many"
    /\ call.moves = <<"Right", "Right">>
    /\ call.before = BoardNew(size)
    /\ is_ordered(cells)
    /\ free_cell_ix # size * size - 1

\* A legal move in grid terms, whatever move_once says: the blank of board b
\* exchanges places with the cell next to it in direction mv (Left: the next
\* column, Right: the previous one, Up: the next row, Down: the previous one),
\* which must lie in the grid.
GridTarget(b, mv) ==
    LET r == b.free_cell_ix \div b.size
        c == b.free_cell_ix % b.size
    IN  CASE mv = "Left" -> <<r, c + 1>>
          [] mv = "Right" -> <<r, c - 1>>
          [] mv = "Up" -> <<r + 1, c>>
          [] mv = "Down" -> <<r - 1, c>>

GridLegal(b, mv) ==
    LET t == GridTarget(b, mv)
    IN  t[1] \in 0..(b.size - 1) /\ t[2] \in 0..(b.size - 1)

GridSlide(b, mv) ==
    LET t == GridTarget(b, mv)
        ix == t[1] * b.size + t[2]
    IN  [cells |-> [k \in 1..Len(b.cells) |->
                       IF k = ix + 1 THEN None
                       ELSE IF k = b.free_cell_ix + 1 THEN b.cells[ix + 1]
                       ELSE b.cells[k]],
         size |-> b.size, free_cell_ix |-> ix]

RECURSIVE GridPath(_, _, _, _)
\* Directions w[k..] are legal grid moves leading from board b to board goal.
GridPath(b, w, k, goal) ==
    IF k > Len(w) THEN b = goal
    ELSE GridLegal(b, w[k]) /\ GridPath(GridSlide(b, w[k]), w, k + 1, goal)

RECURSIVE UndoPath(_, _, _, _)
\* Calling move_once with the opposites of w[k], w[k-1], ..., w[1] from board b
\* returns true every time and ends in board goal.
UndoPath(b, w, k, goal) ==
    IF k = 0 THEN b = goal
    ELSE LET r == move_once(b, Opposite(w[k]))
         IN  r.ret /\ ~r.panicked /\ UndoPath(BoardOf(r), w, k - 1, goal)

\* C10: every board of the random walk, so every board it returns, is
\* solvable: the accepted directions are a path of legal grid moves from the
\* canonical layout to it, and calling move_once with the opposite directions
\* in reverse order returns true every time and ends in the canonical layout.
C10_ShuffleIsSolvable ==
    /\ Len(walk) = i
    /\ GridPath(BoardNew(size), walk, 1, Board)
    /\ UndoPath(Board, walk, Len(walk), BoardNew(size))
    /\ pc = "ready" => Len(walk) = NumShuffleMoves(size)

C10_Witness ==
    /\ pc = "ready"
    /\ size = 2
    /\ Len(walk) = 16
    /\ ~is_ordered(cells)

\* C11: the random-walk shuffle always terminates, for every size >= 1
\* (size 1 included), when the random source keeps drawing each direction.
C11_ShuffleTerminates == <>(pc = "ready")

\* The walk does terminate on boards of size >= 2.
C11_ShuffleTerminatesFromSize2 == (size >= 2) ~> (pc = "ready")

\* C12: Board::new with an invalid size reports a construction error instead
\* of returning a board; in particular new(0, shuffle) returns an error.
\* (call.ret of a "new" call is whether it returned Ok.)
C12_NewRejectsSizeZero == (call.op = "new" /\ size = 0) => ~call.ret

\* C13 as stated: move_once(Up) with the blank in the top row
\* (free_cell_ix < size) leaves the board unchanged and returns false.
C13_UpInTopRowIsNoOp ==
    (call.op = "move_once" /\ call.mv = "Up" /\ call.before.free_cell_ix < size) =>
        (~call.ret /\ ~panicked /\ Board = call.before)

\* C13 amended: move_once(Up) with the blank in the last row
\* (free_cell_ix + size >= size*size) leaves the board unchanged and returns
\* false; Up moves the blank to the next row, so from the top row of a board
\* of size >= 2 it is applied.
C13_UpInLastRowIsNoOp ==
    (call.op = "move_once" /\ call.mv = "Up") =>
        /\ call.before.free_cell_ix + size >= size * size =>
              (~call.ret /\ ~panicked /\ Board = call.before)
        /\ (call.before.free_cell_ix < size /\ size >= 2) =>
              (call.ret /\ free_cell_ix = call.before.free_cell_ix + size)

C13_Witness ==
    /\ call.op = "move_once"
    /\ call.mv = "Up"
    /\ size = 4
    /\ call.before.free_cell_ix = 13
    /\ ~call.ret

\* The 4x4 board with the given rows (0 for the blank) and the blank at free.
Board4(vals, free) ==
    [cells |-> MapNonZeroU16_new(vals), size |-> 4, free_cell_ix |-> free]

\* [_,1,2,3],[4,5,6,7],[8,9,10,11],[12,13,14,15]
Rows_Start == Board4(<<0, 1, 2, 3, 4, 5, 6, 7, 8, 9, 10, 11, 12, 13, 14, 15>>, 0)
\* [1,_,2,3],[4,5,6,7],...
Rows_AfterOne == Board4(<<1, 0, 2, 3, 4, 5, 6, 7, 8, 9, 10, 11, 12, 13, 14, 15>>, 1)
\* [1,2,_,3],[4,5,6,7],...
Rows_AfterTwo == Board4(<<1, 2, 0, 3, 4, 5, 6, 7, 8, 9, 10, 11, 12, 13, 14, 15>>, 2)
\* [1,2,6,3],[4,5,_,7],...
Rows_AfterThree == Board4(<<1, 2, 6, 3, 4, 5, 0, 7, 8, 9, 10, 11, 12, 13, 14, 15>>, 6)

\* The scenario with directions d1, d2, d3: each call returns true, the rows
\* after the first two calls are [1,2,_,3],... and after the third [1,2,6,3],[4,5,_,7],...
Scenario(d1, d2, d3) ==
    /\ (call.op = "move_once" /\ call.before = Rows_Start /\ call.mv = d1) =>
          (call.ret /\ ~panicked /\ Board = Rows_AfterOne)
    /\ (call.op = "move_once" /\ call.before = Rows_AfterOne /\ call.mv = d2) =>
          (call.ret /\ ~panicked /\ Board = Rows_AfterTwo)
    /\ (call.op = "move_many" /\ call.before = Rows_Start /\ call.moves = <<d1, d2>>) =>
          (call.count = 2 /\ ~panicked /\ Board = Rows_AfterTwo)
    /\ (call.op = "move_once" /\ call.before = Rows_AfterTwo /\ call.mv = d3) =>
          (call.ret /\ ~panicked /\ Board = Rows_AfterThree)

C15_NoOverflowUpTo255 ==
    /\ size \in 1..U8Max
    /\ call.op = "new" =>
          /\ size * size <= 65535
          /\ U16(U16(size) * U16(size)) = size * size
          /\ Len(cells) = size * size
          /\ free_cell_ix = size * size - 1
          /\ cells[size * size] = None
          /\ size > 1 => cells[size * size - 1] = Some(size * size - 1)
          /\ size \in (1..8) \cup {U8Max} =>
                /\ \A r \in 0..(size - 1) : \A c \in 0..(size - 1) :
                      cells[r * size + c + 1] =
                          (IF r = size - 1 /\ c = size - 1
                           THEN None ELSE Some(r * size + c + 1))
                /\ is_ordered_long(cells)
          /\ size = 255 =>
                /\ cells[0 * 255 + 0 + 1] = Some(1)
                /\ cells[1 * 255 + 0 + 1] = Some(256)
                /\ cells[254 * 255 + 253 + 1] = Some(65024)
                /\ cells[254 * 255 + 254 + 1] = None
    /\ size <= 8 => is_ordered_long(cells) = is_ordered(cells)

C15_Witness ==
    /\ call.op = "new"
    /\ size = 255
    /\ Len(cells) = 65025
    /\ cells[65024] = Some(65024)

\* C16: on a size-1 board every move_once, in each direction, returns false
\* and leaves the board unchanged, and is_ordered() is true in every state
\* any sequence of moves reaches.
C16_SizeOneNeverMoves ==
    size = 1 =>
        /\ ~panicked
        /\ cells = <<None>>
        /\ free_cell_ix = 0
        /\ is_ordered(cells)
        /\ call.op = "move_once" => (~call.ret /\ Board = call.before)
        /\ call.op = "move_many" => (call.count = 0 /\ Board = call.before)
        /\ \A mv \in Move : ~move_once(Board, mv).ret /\ ~move_once(Board, mv).panicked

C16_Witness ==
    /\ size = 1
    /\ call.op = "move_once"
    /\ call.mv = "Down"
    /\ steps >= 4

\* The directions move_once accepts on the current board.
LegalMoves == {mv \in Move : move_once(Board, mv).ret}

\* C17 as stated: in every reachable state of every board of size >= 1 at
\* least two of the four directions are legal for move_once.
C17_AtLeastTwoLegal == Cardinality(LegalMoves) >= 2

\* C17 amended: that holds on every board of size >= 2; on the 1x1 board no
\* direction is legal.
C17_AtLeastTwoLegalFromSize2 ==
    /\ size >= 2 => Cardinality(LegalMoves) >= 2
    /\ size = 1 => LegalMoves = {}

C17_Witness ==
    /\ size = 3
    /\ call.op = "move_once"
    /\ call.ret
    /\ free_cell_ix = 0
    /\ Cardinality(LegalMoves) = 2

RECURSIVE MoveOncePath(_, _, _, _)
\* Calling move_once with w[k], w[k+1], ... from board b returns true every
\* time and ends in board goal.
MoveOncePath(b, w, k, goal) ==
    IF k > Len(w) THEN b = goal
    ELSE LET r == move_once(b, w[k])
         IN  r.ret /\ ~r.panicked /\ MoveOncePath(BoardOf(r), w, k + 1, goal)

\* C18: RandomShuffle::shuffle returns after exactly size^4 move_once calls
\* that returned true: a drawn direction that is illegal is not counted, does
\* not change the board and leaves the loop running; the returned board is the
\* canonical layout with exactly those size^4 legal moves applied in order.
C18_ShuffleCountsLegalMovesOnly ==
    /\ i = Len(walk)
    /\ i <= NumShuffleMoves(size)
    /\ pc = "ready" => i = NumShuffleMoves(size)
    /\ MoveOncePath(BoardNew(size), walk, 1, Board)
    /\ (pc = "shuffle" /\ i < NumShuffleMoves(size)) =>
          \A mv \in Move :
             LET it == shuffle_iteration(Board, i, mv)
             IN  IF move_once(Board, mv).ret
                 THEN it.i = i + 1 /\ it.accepted
                 ELSE /\ it.i = i
                      /\ ~it.accepted
                      /\ BoardOf(it) = Board
                      /\ it.i < NumShuffleMoves(size)

C18_Witness ==
    /\ pc = "ready"
    /\ size = 2
    /\ i = 16
    /\ Len(walk) = 16

\* C19: a move_once that returns true changes exactly two cells: the old
\* blank cell receives the tile that was at the target, the target becomes
\* empty; every other cell and size are unchanged, free_cell_ix is the target,
\* and the target is orthogonally adjacent to the old blank position.
C19_LegalMoveSwapsTwoCells ==
    (call.op = "move_once" /\ call.ret) =>
        LET f == call.before.free_cell_ix
            t == free_cell_ix
            dr == RowOf(t) - RowOf(f)
            dc == ColOf(t) - ColOf(f)
        IN  /\ t # f
            /\ Len(cells) = Len(call.before.cells)
            /\ IsSome(call.before.cells[t + 1])
            /\ cells[f + 1] = call.before.cells[t + 1]
            /\ cells[t + 1] = None
            /\ \A k \in 0..(Len(cells) - 1) :
                  k \notin {f, t} => cells[k + 1] = call.before.cells[k + 1]
            /\ size = call.before.size
            /\ \/ (dr = 0 /\ dc \in {-1, 1})
               \/ (dc = 0 /\ dr \in {-1, 1})

C19_Witness ==
    /\ call.op = "move_once"
    /\ call.ret
    /\ call.mv = "Left"
    /\ size = 4
    /\ call.before.free_cell_ix = 5

\* C20: for every board Board::new returns (any size it accepts, 0 included)
\* and every direction, move_once never panics and returns true exactly when
\* the call changed the board (free_cell_ix differs from its value before).
C20_TrueIffBoardChanged ==
    call.op = "move_once" =>
        /\ ~panicked
        /\ call.ret <=> (free_cell_ix # call.before.free_cell_ix)

\* C21: a legal Left or Right move never changes the sequence of non-empty
\* values read in storage order (blank skipped), hence never changes the
\* result of is_ordered(); only a legal Up or Down move can turn an ordered
\* board into an unordered one or back.
C21_HorizontalMoveKeepsOrder ==
    /\ (call.op = "move_once" /\ call.mv \in {"Left", "Right"}) =>
          /\ NonEmpty(cells) = NonEmpty(call.before.cells)
          /\ is_ordered(cells) = is_ordered(call.before.cells)
    /\ (call.op = "move_once"
            /\ is_ordered(cells) # is_ordered(call.before.cells)) =>
          (call.ret /\ call.mv \in {"Up", "Down"})
    /\ (call.op = "move_many"
            /\ is_ordered(cells) # is_ordered(call.before.cells)) =>
          (\E k \in 1..Len(call.moves) : call.moves[k] \in {"Up", "Down"})
    /\ ~panicked =>
          \A mv \in {"Left", "Right"} :
              LET r == move_once(Board, mv)
              IN  /\ NonEmpty(r.cells) = NonEmpty(cells)
                  /\ is_ordered(r.cells) = is_ordered(cells)

\* A legal Left inside a row of an unordered 3x3 board: the blank moves, the
\* tile sequence and the verdict of is_ordered() stay.
C21_Witness ==
    /\ call.op = "move_once"
    /\ call.mv = "Left"
    /\ call.ret
    /\ size = 3
    /\ cells # call.before.cells
    /\ ~is_ordered(cells)
    /\ NonEmpty(cells) = NonEmpty(call.before.cells)

\* The other half of C21 happens too: a legal Down unorders the solved board
\* and a legal Up orders it again.
C21_VerticalFlipsOrder ==
    /\ call.op = "move_once"
    /\ call.mv = "Up"
    /\ call.ret
    /\ ~is_ordered(call.before.cells)
    /\ is_ordered(cells)

RECURSIVE InversionsFrom(_, _)
\* The number of pairs a < b, a >= k, of positions of ts whose values stand
\* in descending order.
InversionsFrom(ts, k) ==
    IF k >= Len(ts) THEN 0
    ELSE Cardinality({b \in (k + 1)..Len(ts) : Unwrap(ts[k]) > Unwrap(ts[b])})
         + InversionsFrom(ts, k + 1)

\* The inversions among the non-empty values of cs read in storage order.
Inversions(cs) == InversionsFrom(NonEmpty(cs), 1)

\* The number of rows between the row of cell ix and the last row.
RowsBelow(ix) == (size - 1) - RowOf(ix)

\* The parity every board reachable from the canonical layout has: inversions
\* even for odd size, inversions plus rows below the blank even for even size.
ParityHolds(cs, free) ==
    IF size % 2 = 1 THEN Inversions(cs) % 2 = 0
    ELSE (Inversions(cs) + RowsBelow(free)) % 2 = 0

\* The canonical layout of size sz with tiles 1 and 2 exchanged.
CanonicalWith1And2Exchanged(sz) ==
    [k \in 1..(sz * sz) |->
        IF k = 1 THEN Some(2) ELSE IF k = 2 THEN Some(1)
        ELSE BoardNew(sz).cells[k]]

\* C22: in every state reachable from the canonical layout by move_once
\* (size >= 2) the number of inversions among the non-empty values read in
\* storage order is even when size is odd, and that number plus the number of
\* rows between the blank's row and the last row is even when size is even;
\* so no state of the other parity, such as the canonical layout with tiles 1
\* and 2 exchanged, is reached, and no legal move leads to one.
C22_ParityInvariant ==
    size >= 2 =>
        /\ ~panicked
        /\ ParityHolds(cells, free_cell_ix)
        /\ cells # CanonicalWith1And2Exchanged(size)
        /\ ~ParityHolds(CanonicalWith1And2Exchanged(size), size * size - 1)
        /\ \A mv \in Move :
              LET r == move_once(Board, mv)
              IN  ParityHolds(r.cells, r.free_cell_ix)

\* A legal vertical move on the 4x4 board left an odd number of inversions
\* and the blank an odd number of rows above the last row.
C22_Witness ==
    /\ size = 4
    /\ call.op = "move_once"
    /\ call.mv \in {"Up", "Down"}
    /\ call.ret
    /\ Inversions(cells) % 2 = 1
    /\ RowsBelow(free_cell_ix) % 2 = 1
    /\ Inversions(call.before.cells) % 2 = 0

====
